---- MODULE Spec2Model ----
(***************************************************************************)
(* Model of the cashless wallet API of backend/server.py.                  *)
(*                                                                         *)
(* The store is the two MongoDB collections db.users and db.transactions.  *)
(* Every handler is an asyncio coroutine: it runs without interruption     *)
(* between two awaits, and each await is one database operation            *)
(* (find_one, update_one, insert_one).  One action of the model is         *)
(* therefore one database operation of one request together with the       *)
(* local code that runs up to the next await.  Requests in different slots *)
(* interleave at those points.                                             *)
(*                                                                         *)
(* Amounts and balances are Python floats in the code; they are modelled   *)
(* as integers (whole currency units), so rounding is not modelled.        *)
(***************************************************************************)
EXTENDS Integers, Sequences, FiniteSets

VARIABLES users, transactions, req, nreq

vars == <<users, transactions, req, nreq>>

(***************************************************************************)
(* Bounds of the model.                                                    *)
(***************************************************************************)
\* number of requests that can be in flight at the same time
NSlots == 2
\* number of requests started in one behaviour
MaxRequests == 5
\* number of user records the users collection can hold
MaxUsers == 2
\* largest amount a request carries
MaxAmount == 1
\* longest transaction log a history query is run against
MaxLog == 52

Slots == 1..NSlots
UserIds == 1..MaxUsers
\* request amounts: zero, which the handlers reject like every negative amount,
\* and the positive ones
Amounts == 0..MaxAmount
Emails == {"a@x", "b@x"}
\* the name and the password each email is registered with
NameFor(e) == IF e = "a@x" THEN "ana" ELSE "bia"
PasswordFor(e) == IF e = "a@x" THEN "pa" ELSE "pb"
Passwords == {PasswordFor(e) : e \in Emails}
\* NFC tag identifiers
Tags == {"t1", "t2"}
\* what jwt.decode makes of a bearer token: its signature and expiry are good,
\* its expiry has passed, or it does not verify
Tokens == {"valid", "expired", "invalid"}
\* search strings
Queries == {"a", "bi", "@x"}
\* PaymentRequest.method is a free string; the documented values that are used
Methods == {"transfer", "qr"}

\* find_one returns None when nothing matches
NoUser == [id |-> 0, email |-> "", name |-> "", password |-> "", balance |-> 0,
           nfc_id |-> ""]

\* nfc_id of a user without a tag (None)
NoTag == ""

\* the sender recorded for a recharge
SystemUser == 0

\* .limit(50).to_list(length=50) of get_transactions
HistoryLimit == 50

\* .limit(10).to_list(length=10) of search_users
SearchLimit == 10

(***************************************************************************)
(* The data-access operations on the two collections.                      *)
(***************************************************************************)
\* db.users.find_one({"id": id}); ids are handed out in insertion order, so
\* the record with id i is the i-th of the collection
FindById(id) ==
    IF id \in 1..Len(users) THEN users[id] ELSE NoUser

\* db.users.find_one({"email": e})
FindByEmail(e) ==
    IF \E i \in 1..Len(users) : users[i].email = e
    THEN users[CHOOSE i \in 1..Len(users) :
                  /\ users[i].email = e
                  /\ \A j \in 1..Len(users) : users[j].email = e => i <= j]
    ELSE NoUser

\* db.users.update_one({"id": id}, {"$set": {"balance": b}}): no match, no change
SetBalance(id, b) ==
    IF id \in 1..Len(users) THEN [users EXCEPT ![id].balance = b] ELSE users

\* db.users.find_one({"nfc_id": tag}): None, or a user holding the tag; which
\* one when several hold it is up to the database
FindByNfc(tag) ==
    IF \E i \in 1..Len(users) : users[i].nfc_id = tag
    THEN {users[i] : i \in {j \in 1..Len(users) : users[j].nfc_id = tag}}
    ELSE {NoUser}

\* fault: the update replaces the document's other fields
SetNfc_ResetsBalance(id, tag) ==
    IF id \in 1..Len(users)
    THEN [users EXCEPT ![id].nfc_id = tag, ![id].balance = 0]
    ELSE users

\* db.users.update_one({"id": id}, {"$set": {"nfc_id": tag}})
SetNfc(id, tag) ==
    IF id \in 1..Len(users) THEN [users EXCEPT ![id].nfc_id = tag] ELSE users

\* {"$or": [{"from_user": id}, {"to_user": id}]}: the positions in the log of
\* the transactions that user id is a party of
PartyOf(id) ==
    {i \in 1..Len(transactions) :
        transactions[i].from_user = id \/ transactions[i].to_user = id}

RECURSIVE SortNewestFirst(_)
\* .sort("timestamp", -1) over the records at the positions S
SortNewestFirst(S) ==
    IF S = {} THEN <<>>
    ELSE LET m == CHOOSE i \in S :
                      \A j \in S : transactions[j].timestamp <= transactions[i].timestamp
         IN <<transactions[m]>> \o SortNewestFirst(S \ {m})

\* fault: the limit is not applied
Limit_None(seq, n) == seq

\* .limit(n)
Limit(seq, n) == IF Len(seq) <= n THEN seq ELSE SubSeq(seq, 1, n)

\* the names get_transactions adds to a record: "Sistema" for the system
\* sender, the user's name, or "Usuario" when the lookup finds nobody
FromName(tx) ==
    IF tx.from_user = SystemUser THEN "Sistema"
    ELSE IF FindById(tx.from_user) # NoUser THEN FindById(tx.from_user).name
    ELSE "Usuario"

ToName(tx) ==
    IF FindById(tx.to_user) # NoUser THEN FindById(tx.to_user).name ELSE "Usuario"

WithNames(tx) ==
    [from_user |-> tx.from_user, to_user |-> tx.to_user, amount |-> tx.amount,
     timestamp |-> tx.timestamp, type |-> tx.type,
     from_name |-> FromName(tx), to_name |-> ToName(tx)]

\* {"$regex": q, "$options": "i"} for a q without regex operators: q occurs in
\* str.  Every name, email and search string of the model is in lower case,
\* which the option "i" leaves as it is.
Contains(str, q) ==
    \E i \in 1..(Len(str) - Len(q) + 1) : SubSeq(str, i, i + Len(q) - 1) = q

\* the query of search_users: not the caller, and q in the name or the email
SearchMatches(cur, q) ==
    SelectSeq(users, LAMBDA u : /\ u.id # cur.id
                                /\ (Contains(u.name, q) \/ Contains(u.email, q)))

\* hash_password: sha256 hex digest, a function without collisions on Passwords
hash_password(password) == <<"sha256", password>>

\* verify_password
verify_password(password, hashed) == hash_password(password) = hashed

\* the document built by register (created_at is left out)
NewUser(email, name, password) ==
    [id |-> Len(users) + 1, email |-> email, name |-> name,
     password |-> hash_password(password), balance |-> 0, nfc_id |-> NoTag]

\* datetime.utcnow() when a transaction document is built: the clock has
\* advanced since the previous record was inserted
Now == Len(transactions) + 1

\* the transaction documents built by recharge_balance and make_payment
RechargeTransaction(cur, amount) ==
    [from_user |-> SystemUser, to_user |-> cur.id, amount |-> amount,
     timestamp |-> Now, type |-> "recharge"]

PayTransaction(cur, to_user, amount, method) ==
    [from_user |-> cur.id, to_user |-> to_user, amount |-> amount,
     timestamp |-> Now, type |-> method]

\* fault: the insert replaces the collection's content
InsertTransaction_Replace(tx) == <<tx>>

\* db.transactions.insert_one(transaction)
InsertTransaction(tx) == Append(transactions, tx)

(***************************************************************************)
(* The local decisions of the handlers.  Each is preceded by the faulty    *)
(* variants that the properties below are required to tell apart from it.  *)
(***************************************************************************)
\* fault: zero passes the amount check
InvalidAmount_ZeroAccepted(amount) == amount < 0

\* if recharge_data.amount <= 0 / if payment_data.amount <= 0
InvalidAmount(amount) == amount <= 0

\* fault: the balance check is missing
InsufficientFunds_Unchecked(cur, amount) == FALSE

\* fault: the balance check is off by one
InsufficientFunds_OffByOne(cur, amount) == cur.balance < amount - 1

\* if current_user.balance < payment_data.amount
InsufficientFunds(cur, amount) == cur.balance < amount

\* fault: a tag held by somebody else is accepted
NfcInUse_Unchecked(existing, cur) == FALSE

\* if existing_nfc and existing_nfc["id"] != current_user.id
NfcInUse(existing, cur) == existing # NoUser /\ existing.id # cur.id

\* fault: the recipient check is missing
RecipientMissing_Unchecked(recipient) == FALSE

\* if not recipient
RecipientMissing(recipient) == recipient = NoUser

\* fault: the self-transfer check is missing
IsSelfTransfer_Unchecked(cur, to_user) == FALSE

\* if current_user.id == payment_data.to_user
IsSelfTransfer(cur, to_user) == cur.id = to_user

\* fault: the recharge replaces the balance instead of adding to it
RechargeNewBalance_Overwrite(cur, amount) == amount

\* new_balance = current_user.balance + recharge_data.amount
RechargeNewBalance(cur, amount) == cur.balance + amount

\* new_sender_balance = current_user.balance - payment_data.amount
NewSenderBalance(cur, amount) == cur.balance - amount

\* fault: the credit replaces the recipient's balance instead of adding to it
NewRecipientBalance_Overwrite(recipient, amount) == amount

\* new_recipient_balance = recipient["balance"] + payment_data.amount
NewRecipientBalance(recipient, amount) == recipient.balance + amount

\* the status code of each outcome
Http(status) ==
    CASE status = "ok" -> 200
      [] status \in {"Unauthorized", "TokenExpired", "TokenInvalid",
                     "BadCredentials"} -> 401
      [] status = "NfcNotFound" -> 404
      [] status = "RecipientNotFound" -> 404
      [] OTHER -> 400

(***************************************************************************)
(* Requests.  A slot holds one request: its input (kind, uid, amount,      *)
(* to_user, method, email), the handler's locals (cur = current_user,      *)
(* recipient), its position pc, and its response (status, ret).  The       *)
(* remaining fields record the request's history and are read by no        *)
(* handler: writes counts the database writes it issued, seq numbers the   *)
(* requests, peers holds the requests that were in flight together with it *)
(* and pre is the store as it was when the request arrived.                *)
(***************************************************************************)
IdleReq ==
    [pc |-> "idle", kind |-> "none", token |-> "valid", uid |-> 0, amount |-> 0,
     to_user |-> 0, method |-> "", email |-> "", name |-> "", password |-> "",
     nfc_id |-> NoTag, q |-> "", cur |-> NoUser, recipient |-> NoUser,
     status |-> "", ret |-> 0, result |-> <<>>, writes |-> 0, seq |-> 0,
     peers |-> {},
     pre |-> [users |-> <<>>, transactions |-> <<>>]]

InFlight(s) == req[s].pc \notin {"idle", "done"}

Init ==
    /\ users = <<>>
    /\ transactions = <<>>
    /\ req = [s \in Slots |-> IdleReq]
    /\ nreq = 0

\* The server takes a request into the first free slot.  A finished request
\* stays in its slot, with its response, until the next request arrives.
FreeSlot(s) ==
    /\ ~InFlight(s)
    /\ \A t \in Slots : t < s => InFlight(t)

Arrive(s, r) ==
    /\ nreq' = nreq + 1
    /\ req' = [t \in Slots |->
                 IF t = s
                 THEN [r EXCEPT !.seq = nreq + 1,
                                !.peers = {req[o].seq : o \in {o \in Slots : InFlight(o)}},
                                !.pre = [users |-> users, transactions |-> transactions]]
                 ELSE IF InFlight(t)
                      THEN [req[t] EXCEPT !.peers = @ \cup {nreq + 1}]
                      ELSE IdleReq]
    /\ UNCHANGED <<users, transactions>>

Finish(s, status, ret) ==
    req' = [req EXCEPT ![s].pc = "done", ![s].status = status, ![s].ret = ret]

(***************************************************************************)
(* Arrival of a request at each endpoint.                                  *)
(***************************************************************************)
\* POST /api/register {email}: the handler has no dependency to resolve
ArriveRegister(s) ==
    /\ FreeSlot(s)
    /\ nreq < MaxRequests
    /\ Len(users) + Cardinality({t \in Slots : InFlight(t) /\ req[t].kind = "register"})
          < MaxUsers
    /\ \E e \in Emails :
           Arrive(s, [IdleReq EXCEPT !.pc = "register_find", !.kind = "register",
                                     !.email = e, !.name = NameFor(e),
                                     !.password = PasswordFor(e)])

\* POST /api/recharge {amount} with a token that carries user id uid
ArriveRecharge(s) ==
    /\ FreeSlot(s)
    /\ nreq < MaxRequests
    /\ \E uid \in UserIds, a \in Amounts :
           Arrive(s, [IdleReq EXCEPT !.pc = "auth", !.kind = "recharge",
                                     !.uid = uid, !.amount = a])

\* POST /api/pay {to_user, amount, method} with a token that carries user id uid
ArrivePay(s) ==
    /\ FreeSlot(s)
    /\ nreq < MaxRequests
    /\ \E uid \in UserIds, to \in UserIds, a \in Amounts, m \in Methods :
           Arrive(s, [IdleReq EXCEPT !.pc = "auth", !.kind = "pay", !.uid = uid,
                                     !.to_user = to, !.amount = a, !.method = m])

(***************************************************************************)
(* get_current_user: the dependency of the authenticated endpoints.        *)
(***************************************************************************)
\* fault: an expired token is accepted
decode_token_ExpiredAccepted(token) ==
    IF token = "invalid" THEN "TokenInvalid" ELSE "ok"

\* decode_token: the user id of the payload, or 401
decode_token(token) ==
    CASE token = "expired" -> "TokenExpired"
      [] token = "invalid" -> "TokenInvalid"
      [] OTHER -> "ok"

\* where each handler starts once its current_user is resolved
HandlerEntry(kind) ==
    CASE kind = "recharge" -> "recharge_update"
      [] kind = "pay" -> "pay_find"
      [] kind = "register_nfc" -> "nfc_find"
      [] kind = "transactions" -> "transactions_find"
      [] kind = "search" -> "search_find"
      [] OTHER -> "respond"

Authenticate(s) ==
    /\ req[s].pc = "auth"
    /\ IF decode_token(req[s].token) # "ok"
       THEN Finish(s, decode_token(req[s].token), 0)
       ELSE LET user == FindById(req[s].uid) IN
              IF user = NoUser
              THEN Finish(s, "Unauthorized", 0)
              ELSE req' = [req EXCEPT ![s].cur = user,
                                      ![s].pc = HandlerEntry(req[s].kind)]
    /\ UNCHANGED <<users, transactions, nreq>>

(***************************************************************************)
(* register                                                                *)
(***************************************************************************)
\* existing_user = await db.users.find_one({"email": ...}); 400 when found
RegisterFind(s) ==
    /\ req[s].pc = "register_find"
    /\ IF FindByEmail(req[s].email) # NoUser
       THEN Finish(s, "EmailTaken", 0)
       ELSE req' = [req EXCEPT ![s].pc = "register_insert"]
    /\ UNCHANGED <<users, transactions, nreq>>

\* await db.users.insert_one(user), then the response
RegisterInsert(s) ==
    /\ req[s].pc = "register_insert"
    /\ users' = Append(users, NewUser(req[s].email, req[s].name, req[s].password))
    /\ req' = [req EXCEPT ![s].pc = "done", ![s].status = "ok",
                          ![s].writes = @ + 1]
    /\ UNCHANGED <<transactions, nreq>>

(***************************************************************************)
(* recharge_balance                                                        *)
(***************************************************************************)
\* the amount check, new_balance and await db.users.update_one(...)
RechargeUpdate(s) ==
    /\ req[s].pc = "recharge_update"
    /\ IF InvalidAmount(req[s].amount)
       THEN /\ Finish(s, "InvalidAmount", 0)
            /\ UNCHANGED users
       ELSE /\ users' = SetBalance(req[s].cur.id,
                                   RechargeNewBalance(req[s].cur, req[s].amount))
            /\ req' = [req EXCEPT ![s].pc = "recharge_insert", ![s].writes = @ + 1]
    /\ UNCHANGED <<transactions, nreq>>

\* await db.transactions.insert_one(transaction), then the response
RechargeInsert(s) ==
    /\ req[s].pc = "recharge_insert"
    /\ transactions' = InsertTransaction(
                            RechargeTransaction(req[s].cur, req[s].amount))
    /\ req' = [req EXCEPT ![s].pc = "done", ![s].status = "ok",
                          ![s].ret = RechargeNewBalance(req[s].cur, req[s].amount),
                          ![s].writes = @ + 1]
    /\ UNCHANGED <<users, nreq>>

(***************************************************************************)
(* make_payment                                                            *)
(***************************************************************************)
\* the amount and balance checks on current_user, then
\* recipient = await db.users.find_one({"id": payment_data.to_user})
PayFindRecipient(s) ==
    /\ req[s].pc = "pay_find"
    /\ IF InvalidAmount(req[s].amount)
       THEN Finish(s, "InvalidAmount", 0)
       ELSE IF InsufficientFunds(req[s].cur, req[s].amount)
       THEN Finish(s, "InsufficientFunds", 0)
       ELSE req' = [req EXCEPT ![s].recipient = FindById(req[s].to_user),
                               ![s].pc = "pay_debit"]
    /\ UNCHANGED <<users, transactions, nreq>>

\* fault: the first update writes the recipient's balance
PayDebit_CreditsFirst(s) ==
    /\ req[s].pc = "pay_debit"
    /\ IF RecipientMissing(req[s].recipient) \/ IsSelfTransfer(req[s].cur, req[s].to_user)
       THEN /\ Finish(s, "RecipientNotFound", 0)
            /\ UNCHANGED users
       ELSE /\ users' = SetBalance(req[s].to_user,
                                   NewRecipientBalance(req[s].recipient, req[s].amount))
            /\ req' = [req EXCEPT ![s].pc = "pay_credit", ![s].writes = @ + 1]
    /\ UNCHANGED <<transactions, nreq>>

\* the recipient and self-transfer checks, the two new balances, then
\* await db.users.update_one({"id": current_user.id}, ...)
PayDebit(s) ==
    /\ req[s].pc = "pay_debit"
    /\ IF RecipientMissing(req[s].recipient)
       THEN /\ Finish(s, "RecipientNotFound", 0)
            /\ UNCHANGED users
       ELSE IF IsSelfTransfer(req[s].cur, req[s].to_user)
       THEN /\ Finish(s, "SelfTransfer", 0)
            /\ UNCHANGED users
       ELSE /\ users' = SetBalance(req[s].cur.id,
                                   NewSenderBalance(req[s].cur, req[s].amount))
            /\ req' = [req EXCEPT ![s].pc = "pay_credit", ![s].writes = @ + 1]
    /\ UNCHANGED <<transactions, nreq>>

\* await db.users.update_one({"id": payment_data.to_user}, ...)
PayCredit(s) ==
    /\ req[s].pc = "pay_credit"
    /\ users' = SetBalance(req[s].to_user,
                           NewRecipientBalance(req[s].recipient, req[s].amount))
    /\ req' = [req EXCEPT ![s].pc = "pay_insert", ![s].writes = @ + 1]
    /\ UNCHANGED <<transactions, nreq>>

\* await db.transactions.insert_one(transaction), then the response
PayInsert(s) ==
    /\ req[s].pc = "pay_insert"
    /\ transactions' = InsertTransaction(
                            PayTransaction(req[s].cur, req[s].to_user,
                                           req[s].amount, req[s].method))
    /\ req' = [req EXCEPT ![s].pc = "done", ![s].status = "ok",
                          ![s].ret = NewSenderBalance(req[s].cur, req[s].amount),
                          ![s].writes = @ + 1]
    /\ UNCHANGED <<users, nreq>>

(***************************************************************************)
(* register_nfc                                                            *)
(***************************************************************************)
\* POST /api/register-nfc {nfc_id} with a token that carries user id uid
ArriveRegisterNfc(s) ==
    /\ FreeSlot(s)
    /\ nreq < MaxRequests
    /\ \E uid \in UserIds, tag \in Tags :
           Arrive(s, [IdleReq EXCEPT !.pc = "auth", !.kind = "register_nfc",
                                     !.uid = uid, !.nfc_id = tag])

\* existing_nfc = await db.users.find_one({"nfc_id": ...}); 400 when the tag
\* is somebody else's
RegisterNfcFind(s) ==
    /\ req[s].pc = "nfc_find"
    /\ \E existing \in FindByNfc(req[s].nfc_id) :
           IF NfcInUse(existing, req[s].cur)
           THEN Finish(s, "NfcInUse", 0)
           ELSE req' = [req EXCEPT ![s].pc = "nfc_update"]
    /\ UNCHANGED <<users, transactions, nreq>>

\* await db.users.update_one(... {"$set": {"nfc_id": ...}}), then the response
RegisterNfcUpdate(s) ==
    /\ req[s].pc = "nfc_update"
    /\ users' = SetNfc(req[s].cur.id, req[s].nfc_id)
    /\ req' = [req EXCEPT ![s].pc = "done", ![s].status = "ok",
                          ![s].writes = @ + 1]
    /\ UNCHANGED <<transactions, nreq>>

(***************************************************************************)
(* get_user_by_nfc                                                         *)
(***************************************************************************)
\* GET /api/pay-by-nfc/{nfc_id}: no token is asked for
ArrivePayByNfc(s) ==
    /\ FreeSlot(s)
    /\ nreq < MaxRequests
    /\ \E tag \in Tags :
           Arrive(s, [IdleReq EXCEPT !.pc = "nfc_lookup", !.kind = "pay_by_nfc",
                                     !.nfc_id = tag])

\* user = await db.users.find_one({"nfc_id": nfc_id}); 404 or the response
PayByNfcFind(s) ==
    /\ req[s].pc = "nfc_lookup"
    /\ \E user \in FindByNfc(req[s].nfc_id) :
           IF user = NoUser
           THEN Finish(s, "NfcNotFound", 0)
           ELSE req' = [req EXCEPT ![s].pc = "done", ![s].status = "ok",
                                   ![s].result = <<[user_id |-> user.id,
                                                    name |-> user.name,
                                                    nfc_id |-> user.nfc_id]>>]
    /\ UNCHANGED <<users, transactions, nreq>>

(***************************************************************************)
(* get_transactions                                                        *)
(***************************************************************************)
\* GET /api/transactions with a token that carries user id uid
ArriveTransactions(s) ==
    /\ FreeSlot(s)
    /\ nreq < MaxRequests
    /\ \E uid \in UserIds :
           Arrive(s, [IdleReq EXCEPT !.pc = "auth", !.kind = "transactions",
                                     !.uid = uid])

\* transactions = await db.transactions.find(...).sort(...).limit(50).to_list(...)
TransactionsFind(s) ==
    /\ req[s].pc = "transactions_find"
    /\ req' = [req EXCEPT ![s].pc = "transactions_names",
                          ![s].result = Limit(SortNewestFirst(PartyOf(req[s].cur.id)),
                                              HistoryLimit)]
    /\ UNCHANGED <<users, transactions, nreq>>

\* the loop that looks up the two names of every record, then the response.
\* Its find_one calls read the name of a user by id, which no handler changes
\* once the user is inserted; they are taken as one step.
TransactionsNames(s) ==
    /\ req[s].pc = "transactions_names"
    /\ req' = [req EXCEPT ![s].pc = "done", ![s].status = "ok",
                          ![s].result = [k \in 1..Len(req[s].result) |->
                                            WithNames(req[s].result[k])]]
    /\ UNCHANGED <<users, transactions, nreq>>

(***************************************************************************)
(* login, get_profile, generate_payment_qr, search_users                   *)
(***************************************************************************)
\* POST /api/login {email, password}: the handler has no dependency to resolve
ArriveLogin(s) ==
    /\ FreeSlot(s)
    /\ nreq < MaxRequests
    /\ \E e \in Emails, p \in Passwords :
           Arrive(s, [IdleReq EXCEPT !.pc = "login_find", !.kind = "login",
                                     !.email = e, !.password = p])

\* user = await db.users.find_one({"email": ...}); 401 or the response
LoginFind(s) ==
    /\ req[s].pc = "login_find"
    /\ LET user == FindByEmail(req[s].email) IN
         IF user = NoUser \/ ~verify_password(req[s].password, user.password)
         THEN Finish(s, "BadCredentials", 0)
         ELSE req' = [req EXCEPT ![s].pc = "done", ![s].status = "ok",
                                 ![s].result = <<[id |-> user.id,
                                                  email |-> user.email,
                                                  name |-> user.name,
                                                  balance |-> user.balance,
                                                  nfc_id |-> user.nfc_id]>>]
    /\ UNCHANGED <<users, transactions, nreq>>

\* the endpoints declared with Depends(get_current_user)
AuthenticatedKinds ==
    {"profile", "recharge", "register_nfc", "generate_qr", "pay", "transactions",
     "search"}

\* the bodies and query strings a request to each of them can carry
InputsOf(kind) ==
    CASE kind = "recharge" -> {[IdleReq EXCEPT !.amount = a] : a \in Amounts}
      [] kind = "pay" ->
           {[IdleReq EXCEPT !.to_user = to, !.amount = a, !.method = m] :
               to \in UserIds, a \in Amounts, m \in Methods}
      [] kind = "register_nfc" -> {[IdleReq EXCEPT !.nfc_id = tag] : tag \in Tags}
      [] kind = "search" -> {[IdleReq EXCEPT !.q = q] : q \in Queries}
      [] OTHER -> {IdleReq}

\* a request to an authenticated endpoint with an Authorization header: the
\* bearer token is good, expired or does not verify, and carries user id uid
ArriveAuthenticated(s) ==
    /\ FreeSlot(s)
    /\ nreq < MaxRequests
    /\ \E kind \in AuthenticatedKinds, token \in Tokens, uid \in UserIds :
           \E r \in InputsOf(kind) :
               Arrive(s, [r EXCEPT !.pc = "auth", !.kind = kind, !.token = token,
                                   !.uid = uid])

\* get_profile: return current_user
GetProfile(s) ==
    /\ req[s].pc = "respond"
    /\ req[s].kind = "profile"
    /\ req' = [req EXCEPT ![s].pc = "done", ![s].status = "ok",
                          ![s].result = <<req[s].cur>>]
    /\ UNCHANGED <<users, transactions, nreq>>

\* generate_payment_qr: the QR string is built from current_user alone (the
\* image is an encoding of that string)
GeneratePaymentQr(s) ==
    /\ req[s].pc = "respond"
    /\ req[s].kind = "generate_qr"
    /\ req' = [req EXCEPT ![s].pc = "done", ![s].status = "ok",
                          ![s].result = <<[qr_data |-> <<"cashless", req[s].cur.id,
                                                         req[s].cur.name>>,
                                           user_name |-> req[s].cur.name]>>]
    /\ UNCHANGED <<users, transactions, nreq>>

\* search_users: [] for a q shorter than 2, else the first 10 matches
SearchFind(s) ==
    /\ req[s].pc = "search_find"
    /\ LET found == IF Len(req[s].q) < 2 THEN <<>>
                    ELSE Limit(SearchMatches(req[s].cur, req[s].q), SearchLimit)
       IN req' = [req EXCEPT ![s].pc = "done", ![s].status = "ok",
                             ![s].result = [k \in 1..Len(found) |->
                                               [id |-> found[k].id,
                                                name |-> found[k].name,
                                                email |-> found[k].email]]]
    /\ UNCHANGED <<users, transactions, nreq>>

Next ==
    \E s \in Slots :
        \/ ArriveRegister(s)
        \/ ArriveRecharge(s)
        \/ ArrivePay(s)
        \/ Authenticate(s)
        \/ RegisterFind(s)
        \/ RegisterInsert(s)
        \/ RechargeUpdate(s)
        \/ RechargeInsert(s)
        \/ PayFindRecipient(s)
        \/ PayDebit(s)
        \/ PayCredit(s)
        \/ PayInsert(s)

Spec == Init /\ [][Next]_vars

\* the requests that register users, bind tags and look tags up
NfcNext ==
    \E s \in Slots :
        \/ ArriveRegister(s)
        \/ ArriveRegisterNfc(s)
        \/ ArrivePayByNfc(s)
        \/ Authenticate(s)
        \/ RegisterFind(s)
        \/ RegisterInsert(s)
        \/ RegisterNfcFind(s)
        \/ RegisterNfcUpdate(s)
        \/ PayByNfcFind(s)

NfcSpec == Init /\ [][NfcNext]_vars

(***************************************************************************)
(* History queries.  They are run against stores that recharges and a      *)
(* transfer between two registered users, made one after the other, leave  *)
(* behind.  Record 1 of every log is a recharge of user 2.  In shape 0 the *)
(* other records are recharges of user 1; in shape 1 record 2 is a         *)
(* transfer from user 2 to user 1 and the others are recharges of user 1;  *)
(* in shape 2 all records are recharges of user 2.                         *)
(***************************************************************************)
LogShapes == 0..2

\* the log lengths tried: the short logs and the ones around the limit
LogLengths == (0..3) \cup ((MaxLog - 3)..MaxLog)

LogRecord(p, i) ==
    [from_user |-> IF p = 1 /\ i = 2 THEN 2 ELSE SystemUser,
     to_user |-> IF p = 2 \/ i = 1 THEN 2 ELSE 1,
     amount |-> 1,
     timestamp |-> i,
     type |-> IF p = 1 /\ i = 2 THEN "transfer" ELSE "recharge"]

HistoryUser(i, e, balance) ==
    [id |-> i, email |-> e, name |-> NameFor(e),
     password |-> hash_password(PasswordFor(e)), balance |-> balance,
     nfc_id |-> NoTag]

HistoryInit ==
    /\ \E n \in LogLengths, p \in LogShapes :
          transactions = [i \in 1..n |-> LogRecord(p, i)]
    /\ users = <<HistoryUser(1, "a@x",
                             Cardinality({i \in 1..Len(transactions) :
                                             transactions[i].to_user = 1})),
                 HistoryUser(2, "b@x",
                             Cardinality({i \in 1..Len(transactions) :
                                             transactions[i].to_user = 2})
                             - Cardinality({i \in 1..Len(transactions) :
                                               transactions[i].from_user = 2}))>>
    /\ req = [s \in Slots |-> IdleReq]
    /\ nreq = 0

HistoryNext ==
    \E s \in Slots :
        \/ ArriveTransactions(s)
        \/ Authenticate(s)
        \/ TransactionsFind(s)
        \/ TransactionsNames(s)

HistorySpec == HistoryInit /\ [][HistoryNext]_vars

(***************************************************************************)
(* The whole API.  It starts from the store that a registration and two    *)
(* recharges of 1, served one after the other, leave behind: one user with *)
(* balance 2, a log of two records, and the response of the second         *)
(* recharge still in slot 1.  The requests that follow go to any endpoint  *)
(* and carry any token.                                                    *)
(***************************************************************************)
ServedRecharge(i) ==
    [from_user |-> SystemUser, to_user |-> 1, amount |-> 1, timestamp |-> i,
     type |-> "recharge"]

ApiInit ==
    /\ users = <<HistoryUser(1, "a@x", 2)>>
    /\ transactions = <<ServedRecharge(1), ServedRecharge(2)>>
    /\ req = [s \in Slots |->
                IF s = 1
                THEN [IdleReq EXCEPT
                         !.pc = "done", !.kind = "recharge", !.uid = 1,
                         !.amount = 1, !.cur = HistoryUser(1, "a@x", 1),
                         !.status = "ok", !.ret = 2, !.writes = 2, !.seq = 3,
                         !.pre = [users |-> <<HistoryUser(1, "a@x", 1)>>,
                                  transactions |-> <<ServedRecharge(1)>>]]
                ELSE IdleReq]
    /\ nreq = 3

ApiNext ==
    \E s \in Slots :
        \/ ArriveRegister(s)
        \/ ArriveLogin(s)
        \/ ArrivePayByNfc(s)
        \/ ArriveAuthenticated(s)
        \/ Authenticate(s)
        \/ RegisterFind(s)
        \/ RegisterInsert(s)
        \/ LoginFind(s)
        \/ GetProfile(s)
        \/ RechargeUpdate(s)
        \/ RechargeInsert(s)
        \/ RegisterNfcFind(s)
        \/ RegisterNfcUpdate(s)
        \/ GeneratePaymentQr(s)
        \/ PayFindRecipient(s)
        \/ PayDebit(s)
        \/ PayCredit(s)
        \/ PayInsert(s)
        \/ PayByNfcFind(s)
        \/ TransactionsFind(s)
        \/ TransactionsNames(s)
        \/ SearchFind(s)

ApiSpec == ApiInit /\ [][ApiNext]_vars

(***************************************************************************)
(* Vocabulary of the properties.                                           *)
(***************************************************************************)
Done(s) == req[s].pc = "done"

Registered == 1..Len(users)

\* the request in slot s ran with no other request in flight
Isolated(s) == req[s].peers = {}

\* the requests in slots s and t overlapped each other and nothing else
ConcurrentPair(s, t) ==
    /\ s # t
    /\ req[s].peers = {req[t].seq}
    /\ req[t].peers = {req[s].seq}

\* the user record with this id when the request in slot s arrived
PreUser(s, id) ==
    IF id \in 1..Len(req[s].pre.users) THEN req[s].pre.users[id] ELSE NoUser

\* the store is as it was when the request in slot s arrived
StoreAsBefore(s) ==
    /\ users = req[s].pre.users
    /\ transactions = req[s].pre.transactions

\* the request in slot s appended exactly one record to the log, with the
\* fields of tx
AppendedOnly(s, tx) ==
    /\ Len(transactions) = Len(req[s].pre.transactions) + 1
    /\ SubSeq(transactions, 1, Len(req[s].pre.transactions)) = req[s].pre.transactions
    /\ [f \in DOMAIN tx |-> transactions[Len(transactions)][f]] = tx

RECURSIVE SumTo(_, _)
\* sum of the amounts of the first n recorded transactions received by user u
SumTo(u, n) ==
    IF n = 0 THEN 0
    ELSE SumTo(u, n - 1)
         + (IF transactions[n].to_user = u THEN transactions[n].amount ELSE 0)

RECURSIVE SumFrom(_, _)
\* sum of the amounts of the first n recorded transactions sent by user u
SumFrom(u, n) ==
    IF n = 0 THEN 0
    ELSE SumFrom(u, n - 1)
         + (IF transactions[n].from_user = u THEN transactions[n].amount ELSE 0)

\* what the log says user u owns
Ledger(u) == SumTo(u, Len(transactions)) - SumFrom(u, Len(transactions))

Quiescent == \A s \in Slots : ~InFlight(s)

\* a pay request that is valid against the store it arrived at
ValidPay(s) ==
    /\ req[s].kind = "pay"
    /\ req[s].amount > 0
    /\ PreUser(s, req[s].uid) # NoUser
    /\ PreUser(s, req[s].to_user) # NoUser
    /\ req[s].to_user # req[s].uid
    /\ req[s].amount <= PreUser(s, req[s].uid).balance

\* slots s and t hold two pay requests of one sender, s the earlier, each
\* amount within the sender's balance b and the two together above it
RacingPays(s, t, b) ==
    /\ ConcurrentPair(s, t)
    /\ req[s].seq < req[t].seq
    /\ ValidPay(s)
    /\ req[t].kind = "pay"
    /\ req[t].uid = req[s].uid
    /\ PreUser(s, req[t].to_user) # NoUser
    /\ req[t].to_user # req[t].uid
    /\ b = PreUser(s, req[s].uid).balance
    /\ req[t].amount > 0
    /\ req[t].amount <= b
    /\ req[s].amount + req[t].amount > b

(***************************************************************************)
(* C1.  Two /api/pay requests of the same sender that run concurrently,    *)
(* each amount within the balance and the two together above it: exactly   *)
(* one succeeds, the other fails with InsufficientFunds, and the sender's  *)
(* final balance is the initial balance minus the one successful amount.   *)
(***************************************************************************)
C1_ExactlyOneRacingPaySucceeds ==
    \A s, t \in Slots :
        (Done(s) /\ Done(t) /\ RacingPays(s, t, PreUser(s, req[s].uid).balance)) =>
            LET b == PreUser(s, req[s].uid).balance IN
              \/ /\ req[s].status = "ok"
                 /\ req[t].status = "InsufficientFunds"
                 /\ users[req[s].uid].balance = b - req[s].amount
              \/ /\ req[t].status = "ok"
                 /\ req[s].status = "InsufficientFunds"
                 /\ users[req[s].uid].balance = b - req[t].amount

(***************************************************************************)
(* C2.  In every reachable state every user's stored balance is >= 0.      *)
(***************************************************************************)
C2_BalanceNeverNegative ==
    \A u \in Registered : users[u].balance >= 0

\* two racing pays of one sender have both been accepted and written
C2_Witness ==
    \E s, t \in Slots :
        /\ Done(s) /\ Done(t)
        /\ RacingPays(s, t, PreUser(s, req[s].uid).balance)
        /\ req[s].status = "ok"
        /\ req[t].status = "ok"
        /\ C2_BalanceNeverNegative

(***************************************************************************)
(* C3.  At all times each user's stored balance equals the sum of the      *)
(* recorded transactions received minus the sum of those sent.             *)
(***************************************************************************)
C3_BalanceEqualsLedger ==
    \A u \in Registered : users[u].balance = Ledger(u)

(***************************************************************************)
(* C4.  A valid /api/pay request succeeds, debits the sender by amount,    *)
(* credits the recipient by amount, appends exactly one transaction        *)
(* (sender, recipient, amount, method) and conserves the sum of the two    *)
(* balances.  Before and after are the store at the request's arrival and  *)
(* at its response, with no other request in flight in between.            *)
(***************************************************************************)
C4_ValidPayTransfers ==
    \A s \in Slots :
        (Done(s) /\ Isolated(s) /\ ValidPay(s)) =>
            LET from == req[s].uid
                to == req[s].to_user
                a == req[s].amount
            IN /\ req[s].status = "ok"
               /\ Http(req[s].status) = 200
               /\ users[from].balance = PreUser(s, from).balance - a
               /\ users[to].balance = PreUser(s, to).balance + a
               /\ users[from].balance + users[to].balance
                     = PreUser(s, from).balance + PreUser(s, to).balance
               /\ req[s].ret = users[from].balance
               /\ AppendedOnly(s, [from_user |-> from, to_user |-> to,
                                   amount |-> a, type |-> req[s].method])
               /\ \A u \in Registered \ {from, to} : users[u] = PreUser(s, u)

\* a valid payment to a recipient who already owns something has completed
C4_Witness ==
    \E s \in Slots :
        /\ Done(s) /\ Isolated(s) /\ ValidPay(s)
        /\ PreUser(s, req[s].to_user).balance > 0
        /\ req[s].status = "ok"

(***************************************************************************)
(* C5.  No update of a balance is lost: once the concurrent requests have  *)
(* all finished, every balance is what applying the recorded transactions  *)
(* one after the other gives.                                              *)
(***************************************************************************)
C5_NoUpdateLost ==
    Quiescent => \A u \in Registered : users[u].balance = Ledger(u)

(***************************************************************************)
(* C6.  Recharge is atomic to a reader: in no state has a recharge         *)
(* written the balance without its transaction being in the log.           *)
(***************************************************************************)
C6_RechargeAtomic ==
    \A s \in Slots :
        req[s].kind = "recharge" => req[s].writes \in {0, 2}

(***************************************************************************)
(* C7.  A /api/recharge request with amount a > 0 raises the user's        *)
(* balance by a, returns the stored balance as new_balance, and appends    *)
(* exactly one transaction (system, user, a, "recharge").  Before and      *)
(* after as for C4.                                                        *)
(***************************************************************************)
C7_RechargeAdds ==
    \A s \in Slots :
        (/\ Done(s) /\ Isolated(s)
         /\ req[s].kind = "recharge"
         /\ PreUser(s, req[s].uid) # NoUser
         /\ req[s].amount > 0) =>
            LET u == req[s].uid
                a == req[s].amount
            IN /\ req[s].status = "ok"
               /\ Http(req[s].status) = 200
               /\ users[u].balance = PreUser(s, u).balance + a
               /\ req[s].ret = users[u].balance
               /\ AppendedOnly(s, [from_user |-> SystemUser, to_user |-> u,
                                   amount |-> a, type |-> "recharge"])
               /\ \A v \in Registered \ {u} : users[v] = PreUser(s, v)

\* a recharge of an account that already holds a balance has completed
C7_Witness ==
    \E s \in Slots :
        /\ Done(s) /\ Isolated(s)
        /\ req[s].kind = "recharge"
        /\ req[s].amount > 0
        /\ PreUser(s, req[s].uid).balance > 0
        /\ req[s].status = "ok"

(***************************************************************************)
(* C8.  A /api/pay request whose amount exceeds the sender's balance, as   *)
(* the handler read it, fails with InsufficientFunds (HTTP 400) and issues *)
(* no write; run on its own it leaves the users and the log as they were.  *)
(***************************************************************************)
C8_InsufficientFundsRejected ==
    \A s \in Slots :
        (/\ Done(s)
         /\ req[s].kind = "pay"
         /\ req[s].cur # NoUser
         /\ req[s].amount > req[s].cur.balance) =>
            /\ req[s].status = "InsufficientFunds"
            /\ Http(req[s].status) = 400
            /\ req[s].writes = 0
            /\ Isolated(s) => StoreAsBefore(s)

\* after a recharge and a payment, a payment above what is left was refused
C8_Witness ==
    \E s \in Slots :
        /\ Done(s) /\ Isolated(s)
        /\ req[s].kind = "pay"
        /\ req[s].cur # NoUser
        /\ req[s].amount > req[s].cur.balance
        /\ req[s].to_user # req[s].uid
        /\ PreUser(s, req[s].to_user).balance > 0
        /\ Len(transactions) >= 2
        /\ req[s].status = "InsufficientFunds"

(***************************************************************************)
(* C9.  A /api/pay or /api/recharge request with amount <= 0 is rejected   *)
(* with InvalidAmount (HTTP 400) and issues no write; run on its own it    *)
(* leaves the users and the log as they were.                              *)
(***************************************************************************)
C9_InvalidAmountRejected ==
    \A s \in Slots :
        (/\ Done(s)
         /\ req[s].kind \in {"pay", "recharge"}
         /\ req[s].cur # NoUser
         /\ req[s].amount <= 0) =>
            /\ req[s].status = "InvalidAmount"
            /\ Http(req[s].status) = 400
            /\ req[s].writes = 0
            /\ Isolated(s) => StoreAsBefore(s)

\* a pay and a recharge with amount 0 were both rejected
C9_Witness ==
    \E s, t \in Slots :
        /\ Done(s) /\ Done(t)
        /\ req[s].kind = "pay" /\ req[t].kind = "recharge"
        /\ req[s].cur # NoUser /\ req[t].cur # NoUser
        /\ req[s].amount <= 0 /\ req[t].amount <= 0
        /\ req[s].status = "InvalidAmount" /\ req[t].status = "InvalidAmount"

(***************************************************************************)
(* C10.  A /api/pay request whose to_user is the authenticated sender      *)
(* fails, for every amount and every balance, and issues no write; run on  *)
(* its own it leaves the users and the log as they were.                   *)
(***************************************************************************)
C10_SelfTransferFails ==
    \A s \in Slots :
        (/\ Done(s)
         /\ req[s].kind = "pay"
         /\ req[s].to_user = req[s].uid) =>
            /\ req[s].status # "ok"
            /\ req[s].cur # NoUser => Http(req[s].status) = 400
            /\ req[s].writes = 0
            /\ Isolated(s) => StoreAsBefore(s)

\* a self-transfer that passed the amount and balance checks was refused
C10_Witness ==
    \E s \in Slots :
        /\ Done(s)
        /\ req[s].kind = "pay"
        /\ req[s].to_user = req[s].uid
        /\ req[s].amount > 0
        /\ req[s].amount <= req[s].cur.balance
        /\ req[s].status = "SelfTransfer"

(***************************************************************************)
(* C11.  A /api/pay request whose to_user is no registered user fails with *)
(* RecipientNotFound (HTTP 404) whatever the sender's balance.             *)
(***************************************************************************)
C11_UnknownRecipientAlways404 ==
    \A s \in Slots :
        (/\ Done(s)
         /\ req[s].kind = "pay"
         /\ req[s].cur # NoUser
         /\ req[s].amount > 0
         /\ req[s].to_user \notin Registered) =>
            /\ req[s].status = "RecipientNotFound"
            /\ Http(req[s].status) = 404

(***************************************************************************)
(* C11, as the code has it.  A /api/pay request whose to_user is no        *)
(* registered user fails and issues no write (run on its own it leaves the *)
(* users and the log as they were); it fails with RecipientNotFound (HTTP  *)
(* 404) when its amount is positive and within the balance the handler     *)
(* read, and with the 400 of the amount or balance check otherwise.        *)
(***************************************************************************)
C11_UnknownRecipientRejected ==
    \A s \in Slots :
        (/\ Done(s)
         /\ req[s].kind = "pay"
         /\ req[s].cur # NoUser
         /\ req[s].to_user \notin Registered) =>
            /\ IF req[s].amount <= 0
               THEN req[s].status = "InvalidAmount"
               ELSE IF req[s].amount > req[s].cur.balance
               THEN req[s].status = "InsufficientFunds"
               ELSE req[s].status = "RecipientNotFound" /\ Http(req[s].status) = 404
            /\ Http(req[s].status) \in {400, 404}
            /\ req[s].writes = 0
            /\ Isolated(s) => StoreAsBefore(s)

\* a payment the sender could afford, to an id nobody holds, was refused
C11_Witness ==
    \E s \in Slots :
        /\ Done(s)
        /\ req[s].kind = "pay"
        /\ req[s].to_user \notin Registered
        /\ req[s].amount > 0
        /\ req[s].amount <= req[s].cur.balance
        /\ req[s].status = "RecipientNotFound"

(***************************************************************************)
(* C14.  In every reachable state no two user records share an email.      *)
(***************************************************************************)
C14_EmailUnique ==
    \A i, j \in Registered : users[i].email = users[j].email => i = j

(***************************************************************************)
(* C15.  Every recorded transaction has a strictly positive amount, a      *)
(* to_user that is an existing user, and a from_user that is the system    *)
(* sentinel or an existing user other than to_user.                        *)
(***************************************************************************)
C15_TransactionsWellFormed ==
    \A i \in 1..Len(transactions) :
        LET tx == transactions[i] IN
          /\ tx.amount > 0
          /\ tx.to_user \in Registered
          /\ \/ tx.from_user = SystemUser
             \/ tx.from_user \in Registered /\ tx.from_user # tx.to_user

\* the log holds a recharge and a transfer
C15_Witness ==
    /\ \E i \in 1..Len(transactions) : transactions[i].from_user = SystemUser
    /\ \E i \in 1..Len(transactions) : transactions[i].from_user # SystemUser

(***************************************************************************)
(* C16.  The transaction log is append-only: every step keeps the records  *)
(* already in the log, with all their fields, and the log grows by exactly *)
(* one record in exactly the steps in which a recharge or pay request      *)
(* completes successfully.                                                 *)
(***************************************************************************)
C16_LogAppendOnly ==
    [][/\ Len(transactions') >= Len(transactions)
       /\ SubSeq(transactions', 1, Len(transactions)) = transactions
       /\ Len(transactions') <= Len(transactions) + 1
       /\ (Len(transactions') = Len(transactions) + 1) <=>
             \E s \in Slots :
                 /\ InFlight(s)
                 /\ req[s].kind \in {"recharge", "pay"}
                 /\ req'[s].pc = "done"
                 /\ req'[s].status = "ok"]_vars

\* two records are in the log and a request that appends none has finished
C16_Witness ==
    /\ Len(transactions) >= 2
    /\ \E s \in Slots : Done(s) /\ req[s].status # "ok"

(***************************************************************************)
(* C19.  Within one /api/pay request the writes come in the order sender   *)
(* debit, recipient credit, transaction append, after all four checks: a   *)
(* request that has written passed the checks; between its writes the      *)
(* sender is debited and the recipient not yet credited, then both are     *)
(* written and nothing is logged; its transaction is in the log only once  *)
(* both balance writes were issued.                                        *)
(***************************************************************************)
C19_PayWriteOrder ==
    \A s \in Slots :
        req[s].kind = "pay" =>
            LET from == req[s].uid
                to == req[s].to_user
                a == req[s].amount
                debited == users[from].balance = PreUser(s, from).balance - a
                credited == users[to].balance = PreUser(s, to).balance + a
                logged == Len(transactions) = Len(req[s].pre.transactions) + 1
            IN /\ req[s].writes >= 1 =>
                     /\ a > 0
                     /\ req[s].cur.balance >= a
                     /\ req[s].recipient # NoUser
                     /\ req[s].cur.id # to
               /\ req[s].pc \in {"auth", "pay_find", "pay_debit"} => req[s].writes = 0
               /\ req[s].pc = "pay_credit" => req[s].writes = 1
               /\ req[s].pc = "pay_insert" => req[s].writes = 2
               /\ Done(s) => req[s].writes = IF req[s].status = "ok" THEN 3 ELSE 0
               /\ (Isolated(s) /\ req[s].writes = 0) => StoreAsBefore(s)
               /\ (Isolated(s) /\ req[s].writes = 1) =>
                     debited /\ ~credited /\ ~logged
               /\ (Isolated(s) /\ req[s].writes = 2) =>
                     debited /\ credited /\ ~logged
               /\ (Isolated(s) /\ req[s].writes = 3) =>
                     debited /\ credited /\ logged

\* the sender is debited and the recipient not yet credited
C19_WitnessDebitedNotCredited ==
    \E s \in Slots :
        /\ req[s].kind = "pay" /\ Isolated(s) /\ req[s].pc = "pay_credit"
        /\ users[req[s].uid].balance = PreUser(s, req[s].uid).balance - req[s].amount
        /\ users[req[s].to_user].balance = PreUser(s, req[s].to_user).balance

\* both balances are written and no transaction is logged
C19_WitnessWrittenNotLogged ==
    \E s \in Slots :
        /\ req[s].kind = "pay" /\ Isolated(s) /\ req[s].pc = "pay_insert"
        /\ users[req[s].to_user].balance
              = PreUser(s, req[s].to_user).balance + req[s].amount
        /\ transactions = req[s].pre.transactions

(***************************************************************************)
(* C12.  In every reachable state no two distinct users hold the same      *)
(* non-null nfc_id, and a finished request for a tag that a different user *)
(* held when it arrived has failed with HTTP 400 and, run on its own,      *)
(* changed nothing.                                                        *)
(***************************************************************************)
C12_NfcUnique ==
    /\ \A i, j \in Registered :
          (users[i].nfc_id # NoTag /\ users[i].nfc_id = users[j].nfc_id) => i = j
    /\ \A s \in Slots :
          (/\ Done(s) /\ Isolated(s)
           /\ req[s].kind = "register_nfc"
           /\ PreUser(s, req[s].uid) # NoUser
           /\ \E i \in 1..Len(req[s].pre.users) :
                 i # req[s].uid /\ req[s].pre.users[i].nfc_id = req[s].nfc_id) =>
              /\ req[s].status = "NfcInUse"
              /\ Http(req[s].status) = 400
              /\ StoreAsBefore(s)

(***************************************************************************)
(* C13.  A /api/register-nfc request for the tag the caller already holds  *)
(* succeeds, and the store after it is the store before it.                *)
(***************************************************************************)
C13_OwnTagIdempotent ==
    \A s \in Slots :
        (/\ Done(s) /\ Isolated(s)
         /\ req[s].kind = "register_nfc"
         /\ PreUser(s, req[s].uid) # NoUser
         /\ PreUser(s, req[s].uid).nfc_id = req[s].nfc_id) =>
            /\ req[s].status = "ok"
            /\ StoreAsBefore(s)

(***************************************************************************)
(* C18.  The history returned to user U holds exactly the transactions in  *)
(* which U is from_user or to_user, newest first by timestamp, cut to the  *)
(* 50 newest; no transaction in which U is neither party is returned, and  *)
(* the sender name of a recharge entry is the fixed system label.          *)
(***************************************************************************)
C18_HistoryExact ==
    \A s \in Slots :
        (Done(s) /\ req[s].kind = "transactions" /\ req[s].status = "ok") =>
            LET u == req[s].uid
                res == req[s].result
                mine == {i \in 1..Len(transactions) :
                            transactions[i].from_user = u \/ transactions[i].to_user = u}
                returned == {i \in mine :
                               \E k \in 1..Len(res) :
                                   /\ res[k].timestamp = transactions[i].timestamp
                                   /\ res[k].from_user = transactions[i].from_user
                                   /\ res[k].to_user = transactions[i].to_user
                                   /\ res[k].amount = transactions[i].amount
                                   /\ res[k].type = transactions[i].type}
            IN /\ \A k \in 1..Len(res) : res[k].from_user = u \/ res[k].to_user = u
               /\ Cardinality(returned) = Len(res)
               /\ Len(res) = IF Cardinality(mine) <= 50 THEN Cardinality(mine) ELSE 50
               /\ \A k \in 1..(Len(res) - 1) : res[k].timestamp > res[k + 1].timestamp
               /\ \A i \in mine \ returned : \A j \in returned :
                      transactions[i].timestamp < transactions[j].timestamp
               /\ \A k \in 1..Len(res) :
                      res[k].from_user = SystemUser => res[k].from_name = "Sistema"

\* a history of recharges was cut to the 50 newest of more than 50 records,
\* with a record of another user in the log
C18_Witness ==
    \E s \in Slots :
        /\ Done(s) /\ req[s].kind = "transactions" /\ req[s].status = "ok"
        /\ Len(req[s].result) = 50
        /\ Cardinality(PartyOf(req[s].uid)) > 50
        /\ Cardinality(PartyOf(req[s].uid)) < Len(transactions)
        /\ req[s].result[1].from_name = "Sistema"

Balances(us) == [i \in 1..Len(us) |-> us[i].balance]

ReadOnlyKinds ==
    {"login", "profile", "register_nfc", "generate_qr", "pay_by_nfc",
     "transactions", "search"}

\* the request in slot s takes this step
Acting(s) == InFlight(s) /\ req'[s].pc # req[s].pc

C20_OnlyLedgerOperationsChangeBalances ==
    [][/\ nreq' # nreq => users' = users /\ transactions' = transactions
       /\ \A s \in Slots :
            Acting(s) =>
               /\ req[s].kind \in ReadOnlyKinds =>
                     /\ transactions' = transactions
                     /\ Balances(users') = Balances(users)
               /\ req[s].kind = "register" =>
                     /\ transactions' = transactions
                     /\ \/ users' = users
                        \/ /\ Len(users') = Len(users) + 1
                           /\ SubSeq(users', 1, Len(users)) = users
                           /\ users'[Len(users')].balance = 0
                           /\ users'[Len(users')].nfc_id = NoTag
       /\ (Balances(users') # Balances(users) \/ transactions' # transactions) =>
            \E s \in Slots :
                Acting(s) /\ req[s].kind \in {"recharge", "pay", "register"}
      ]_vars

\* a user with a positive balance has bound a tag and kept the balance, and a
\* second user has been registered beside them
C20_Witness ==
    \E s \in Slots, t \in Slots :
        /\ Done(s) /\ req[s].kind = "register_nfc" /\ req[s].status = "ok"
        /\ users[req[s].uid].nfc_id = req[s].nfc_id
        /\ users[req[s].uid].balance = 2
        /\ Done(t) /\ req[t].kind = "register" /\ req[t].status = "ok"
        /\ Len(users) = 2
        /\ users[2].balance = 0 /\ users[2].nfc_id = NoTag

====
